---- MODULE Spec2Model ----
(***************************************************************************)
(* A model of the Game of Life engine of rust_wasm:                        *)
(*   src/src/game_of_life.rs   Field (two cell buffers, update, toggle,    *)
(*                              text parsing and Display)                  *)
(*   src/src/ring_buffer.rs    RingBuffer over a VecDeque                  *)
(* Vectors are functions on 0..len-1, as the code indexes them.  A Rust    *)
(* panic (index out of bounds, unwrap of a missing value) ends the run:    *)
(* the variable panicked records it and every action is disabled after it. *)
(***************************************************************************)
EXTENDS Integers, Sequences, FiniteSets, TLC

VARIABLES
  width,        \* Field.width  (0 while no Field is constructed)
  height,       \* Field.height
  cells,        \* Field.cells, the current generation
  swap_cells,   \* Field.swap_cells, the other buffer
  call,         \* the last call on the Field: its name, arguments, return
                \* value, and the buffers as they were when it was made
  gen,          \* number of update() calls since construction
  edits,        \* number of toggle_by_coords() calls since construction
  panicked,     \* TRUE once a call has panicked
  text,         \* the input of from_str
  parsed,       \* the Result of from_str(text), NotParsed before the call
  shown,        \* the text written by Display (to_string), <<>> before the call
  ring,         \* RingBuffer.inner: the VecDeque (storage, head, len, capacity)
  ring_hist,    \* the capacity passed to RingBuffer::new and the values pushed
                \* since construction or the last truncate
  state,        \* the AnimationState of lib.rs: next_frame, next_timeout,
                \* reduce_fps, time_history_ms
  window,       \* the browser's side: the animation frames and timeouts that
                \* are pending, and the last handle of each kind it returned
  event,        \* the last callback the browser ran, with what it saw and did
  twin          \* a second Field with the same current generation as the first

vars == <<width, height, cells, swap_cells, call, gen, edits, panicked, text, parsed, shown,
         ring, ring_hist, state, window, event, twin>>

field_vars == <<width, height, cells, swap_cells>>

ring_vars == <<ring, ring_hist>>

host_vars == <<state, window, event, twin>>

-----------------------------------------------------------------------------
(* Bounds of the model *)

MaxDim   == 3    \* largest width and height drawn at construction
MaxCells == 9    \* largest width * height drawn at construction
MaxGen   == 2    \* update() calls per run
MaxEdits == 1    \* toggle_by_coords() calls per run
GliderGen == 4   \* update() calls per run of the glider scenario
MaxLen   == 5    \* longest text handed to from_str
MaxCap   == 3    \* largest capacity handed to RingBuffer::new
MaxSlack == 0    \* capacity VecDeque::with_capacity allocates beyond the request
MaxVal   == 2    \* values pushed are 1..MaxVal
MaxPushes == 4   \* push() calls per run
FieldSize == 2   \* side of the fields of the buttons of lib.rs
MaxTicks  == 2   \* calls of the draw loop's tick per run
SmallCells == 4  \* largest width * height in the scenarios of pairs and of display
MaxLines == 3    \* most lines of a text put together from lines

-----------------------------------------------------------------------------
(* CellValue and the small value types *)

Dead  == 0
Alive == 1
CellValue == {Dead, Alive}

other(v) == IF v = Dead THEN Alive ELSE Dead

None      == [tag |-> "None"]
Some(v)   == [tag |-> "Some", val |-> v]
Panic     == [tag |-> "Panic"]
Unit      == "()"

len(v) == Cardinality(DOMAIN v)

\* vec![CellValue::Dead; n]
dead_vec(n) == [i \in 0..(n - 1) |-> Dead]


-----------------------------------------------------------------------------
(* Field: a record of the four fields, for the pure helpers *)

Field(w, h, c, s) == [width |-> w, height |-> h, cells |-> c, swap_cells |-> s]

self == Field(width, height, cells, swap_cells)

new(w, h) == Field(w, h, dead_vec(w * h), dead_vec(w * h))

\* generate_by_fn with cell_count taken as width * width
generate_by_fn_square(w, h, random_bool) ==
  Field(w, h,
        [i \in 0..(w * w - 1) |-> IF i \in random_bool THEN Alive ELSE Dead],
        dead_vec(w * w))

\* generate_by_fn that asks the predicate about 1..cell_count
generate_by_fn_from_1(w, h, random_bool) ==
  Field(w, h,
        [i \in 0..(w * h - 1) |-> IF (i + 1) \in random_bool THEN Alive ELSE Dead],
        dead_vec(w * h))

\* random_bool is given by the set of indices on which it returns true
generate_by_fn(w, h, random_bool) ==
  Field(w, h,
        [i \in 0..(w * h - 1) |-> IF i \in random_bool THEN Alive ELSE Dead],
        dead_vec(w * h))

get_height(f) == f.height
get_width(f)  == f.width

coords_to_index_unchecked(f, row, col) == (row * f.width) + col

coords_to_index_checked(f, row, col) ==
  IF row >= f.width THEN None
  ELSE IF col >= f.height THEN None
  ELSE Some(coords_to_index_unchecked(f, row, col))

\* self.cells[index]: a panic when index is out of bounds
get_by_coords(f, row, col) ==
  LET index == coords_to_index_checked(f, row, col)
  IN  IF index = None THEN None
      ELSE IF index.val \notin DOMAIN f.cells THEN Panic
      ELSE Some(f.cells[index.val])

\* the return value and the Field after toggle_by_coords(row, col)
toggle_by_coords(f, row, col) ==
  LET index == coords_to_index_checked(f, row, col)
  IN  IF index = None THEN [ret |-> None, field |-> f]
      ELSE IF index.val \notin DOMAIN f.cells THEN [ret |-> Panic, field |-> f]
      ELSE [ret   |-> Some(Unit),
            field |-> [f EXCEPT !.cells[index.val] = other(@)]]

view(f)     == f.cells
view_old(f) == f.swap_cells

-----------------------------------------------------------------------------
(* update(): one generation step *)

\* next_coord_wrapped that wraps one step late
next_coord_wrapped_late(value, max_value) ==
  IF value > max_value THEN 0 ELSE value + 1

next_coord_wrapped(value, max_value) ==
  IF value >= max_value THEN 0 ELSE value + 1

\* prev_coord_wrapped without the wrap: row 0 keeps row 0 as its upper row
prev_coord_wrapped_clamped(value, max_value) ==
  IF value = 0 THEN 0 ELSE value - 1

prev_coord_wrapped(value, max_value) ==
  IF value = 0 THEN max_value ELSE value - 1

\* the eight indices of self.cells that count_live_neighbours reads, in order
neighbour_reads(f, row, col, max_row, max_col) ==
  LET row_top    == prev_coord_wrapped(row, max_row)
      row_bottom == next_coord_wrapped(row, max_row)
      col_left   == prev_coord_wrapped(col, max_col)
      col_right  == next_coord_wrapped(col, max_col)
  IN  << coords_to_index_unchecked(f, row_top, col_left),
         coords_to_index_unchecked(f, row_top, col),
         coords_to_index_unchecked(f, row_top, col_right),
         coords_to_index_unchecked(f, row, col_left),
         coords_to_index_unchecked(f, row, col_right),
         coords_to_index_unchecked(f, row_bottom, col_left),
         coords_to_index_unchecked(f, row_bottom, col),
         coords_to_index_unchecked(f, row_bottom, col_right) >>

\* no read of count_live_neighbours is out of bounds
reads_in_bounds(f, row, col, max_row, max_col) ==
  LET reads == neighbour_reads(f, row, col, max_row, max_col)
  IN  \A k \in 1..8 : reads[k] \in DOMAIN f.cells

RECURSIVE sum_cells(_, _, _)
sum_cells(c, reads, k) ==
  IF k > Len(reads) THEN 0 ELSE c[reads[k]] + sum_cells(c, reads, k + 1)

\* count_live_neighbours reading the buffer being written instead of self.cells
count_live_neighbours_of_swap(f, row, col, max_row, max_col) ==
  sum_cells(f.swap_cells, neighbour_reads(f, row, col, max_row, max_col), 1) % 256

\* count += self.cells[..] as u8, eight times
count_live_neighbours(f, row, col, max_row, max_col) ==
  sum_cells(f.cells, neighbour_reads(f, row, col, max_row, max_col), 1) % 256

\* the pairs (delta_row, delta_col) of the two nested loops of
\* count_live_neighbours_slow, in order
slow_deltas(f) ==
  LET delta_rows == <<f.height - 1, 0, 1>>
      delta_cols == <<f.width - 1, 0, 1>>
  IN  [k \in 1..9 |-> <<delta_rows[((k - 1) \div 3) + 1], delta_cols[((k - 1) % 3) + 1]>>]

\* the indices count_live_neighbours_slow reads: the pair with both deltas 0
\* is skipped by the continue
slow_reads(f, row, col) ==
  LET kept == SelectSeq(slow_deltas(f), LAMBDA d : ~((d[1] = 0) /\ (d[2] = 0)))
  IN  [k \in 1..Len(kept) |->
         coords_to_index_unchecked(f, (row + kept[k][1]) % f.height,
                                      (col + kept[k][2]) % f.width)]

count_live_neighbours_slow(f, row, col) ==
  sum_cells(f.cells, slow_reads(f, row, col), 1) % 256

\* calc_new_value without the match on the old value
calc_new_value_as_alive(old_value, live_neighbours) ==
  IF (live_neighbours = 2) \/ (live_neighbours = 3) THEN Alive ELSE Dead

\* calc_new_value where a dead cell is born with up to 3 live neighbours
calc_new_value_birth_le_3(old_value, live_neighbours) ==
  IF old_value = Alive
  THEN IF (live_neighbours = 2) \/ (live_neighbours = 3) THEN Alive ELSE Dead
  ELSE IF live_neighbours <= 3 THEN Alive ELSE Dead

\* calc_new_value where a live cell survives with 2 live neighbours only
calc_new_value_survive_2(old_value, live_neighbours) ==
  IF old_value = Alive
  THEN IF live_neighbours = 2 THEN Alive ELSE Dead
  ELSE IF live_neighbours = 3 THEN Alive ELSE Dead

calc_new_value(old_value, live_neighbours) ==
  IF old_value = Alive
  THEN IF (live_neighbours = 2) \/ (live_neighbours = 3) THEN Alive ELSE Dead
  ELSE IF live_neighbours = 3 THEN Alive ELSE Dead

\* The two nested loops of update(), from the k-th cell in row-major order on.
\* acc carries swap_cells as written so far, has_alive, the neighbour counts
\* computed so far and whether an access was out of bounds.
RECURSIVE update_loop(_, _, _)
update_loop(f, k, acc) ==
  IF acc.panic \/ k >= len(f.cells) THEN acc
  ELSE
    LET max_col == f.width - 1
        max_row == f.height - 1
        row_no  == k \div f.width
        col_no  == k % f.width
        value   == f.cells[k]
    IN  IF ~reads_in_bounds(f, row_no, col_no, max_row, max_col)
        THEN [acc EXCEPT !.panic = TRUE]
        ELSE
          LET live_neighbours == count_live_neighbours(f, row_no, col_no, max_row, max_col)
              index           == coords_to_index_unchecked(f, row_no, col_no)
              new_value       == calc_new_value(value, live_neighbours)
          IN  IF index \notin DOMAIN acc.swap_cells
              THEN [acc EXCEPT !.panic = TRUE]
              ELSE update_loop(f, k + 1,
                     [acc EXCEPT !.swap_cells[index] = new_value,
                                 !.has_alive = acc.has_alive \/ (new_value = Alive),
                                 !.live = Append(@, live_neighbours)])

\* update() that reports whether the generation it read had a live cell
update_ret_of_old(f) ==
  LET r == update_loop(f, 0, [swap_cells |-> f.swap_cells, has_alive |-> FALSE,
                              live |-> <<>>, panic |-> FALSE])
  IN  [panic |-> r.panic,
       ret   |-> \E k \in DOMAIN f.cells : f.cells[k] = Alive,
       live  |-> [k \in 0..(Len(r.live) - 1) |-> r.live[k + 1]],
       field |-> IF r.panic THEN f
                 ELSE [f EXCEPT !.cells = r.swap_cells, !.swap_cells = f.cells]]

\* update() that copies the new generation instead of swapping the buffers
update_without_swap(f) ==
  LET r == update_loop(f, 0, [swap_cells |-> f.swap_cells, has_alive |-> FALSE,
                              live |-> <<>>, panic |-> FALSE])
  IN  [panic |-> r.panic,
       ret   |-> r.has_alive,
       live  |-> [k \in 0..(Len(r.live) - 1) |-> r.live[k + 1]],
       field |-> IF r.panic THEN f
                 ELSE [f EXCEPT !.cells = r.swap_cells, !.swap_cells = r.swap_cells]]

\* update(): the loops, then mem::swap of the two buffers
update(f) ==
  LET r == update_loop(f, 0, [swap_cells |-> f.swap_cells, has_alive |-> FALSE,
                              live |-> <<>>, panic |-> FALSE])
  IN  [panic |-> r.panic,
       ret   |-> r.has_alive,
       live  |-> [k \in 0..(Len(r.live) - 1) |-> r.live[k + 1]],
       field |-> IF r.panic THEN f
                 ELSE [f EXCEPT !.cells = r.swap_cells, !.swap_cells = f.cells]]

-----------------------------------------------------------------------------
(* Slices and iterators: chunks, rows, rows_with_old *)

Min(a, b) == IF a <= b THEN a ELSE b

\* slice.chunks(n): the sequence of the slices of n elements (the last one
\* shorter when n does not divide the length)
chunks(v, n) ==
  [i \in 1..((len(v) + n - 1) \div n) |->
     [j \in 0..(Min(n, len(v) - (i - 1) * n) - 1) |-> v[(i - 1) * n + j]]]

\* a.zip(b)
zip(a, b) == [i \in 1..Min(Len(a), Len(b)) |-> <<a[i], b[i]>>]

\* rows() that cuts the buffer into chunks of height elements
rows_by_height(f) == chunks(f.cells, f.height)

rows(f) == chunks(f.cells, f.width)

rows_with_old(f) == zip(chunks(f.cells, f.width), chunks(f.swap_cells, f.width))

-----------------------------------------------------------------------------
(* Text: a str is a sequence of characters *)

Hash       == "#"
Underscore == "_"
Space      == " "
Newline    == "\n"
Return     == "\r"
Letter     == "x"

\* char::is_whitespace, on the characters of the model
is_whitespace(ch) == ch \in {Space, Newline, Return}

\* str::trim
trim(str) ==
  LET keep == {k \in 1..Len(str) : ~is_whitespace(str[k])}
  IN  IF keep = {} THEN <<>>
      ELSE SubSeq(str, CHOOSE k \in keep : \A m \in keep : k <= m,
                       CHOOSE k \in keep : \A m \in keep : k >= m)

\* str::lines: split at "\n", a "\r" before it is dropped with it; no line
\* after a final "\n"
RECURSIVE lines(_)
lines(str) ==
  IF str = <<>> THEN <<>>
  ELSE
    LET breaks == {k \in 1..Len(str) : str[k] = Newline}
    IN  IF breaks = {} THEN <<str>>
        ELSE
          LET nl   == CHOOSE k \in breaks : \A m \in breaks : k <= m
              line == SubSeq(str, 1, nl - 1)
              bare == IF line # <<>> /\ line[Len(line)] = Return
                      THEN SubSeq(line, 1, Len(line) - 1) ELSE line
          IN  <<bare>> \o lines(SubSeq(str, nl + 1, Len(str)))

Ok(v)  == [tag |-> "Ok", val |-> v]
Err(e) == [tag |-> "Err", err |-> e]

EmptyString   == "EmptyString"
UnknownChar   == "UnknownChar"
WidthMismatch == "WidthMismatch"
ParseError    == {EmptyString, UnknownChar, WidthMismatch}

\* a push that puts the value in front of the others
push_front(vec, val) == [i \in 0..len(vec) |-> IF i = 0 THEN val ELSE vec[i - 1]]

\* vec.push(val)
push(vec, val) == (len(vec) :> val) @@ vec

\* the loop of from_str_line with a final else that yields Dead
RECURSIVE from_str_line_loop_lenient(_, _, _)
from_str_line_loop_lenient(chars, k, vec) ==
  IF k > Len(chars) THEN Ok(vec)
  ELSE IF chars[k] = Hash THEN from_str_line_loop_lenient(chars, k + 1, push(vec, Alive))
  ELSE from_str_line_loop_lenient(chars, k + 1, push(vec, Dead))

\* the loop of from_str_line over the characters of the trimmed line
RECURSIVE from_str_line_loop(_, _, _)
from_str_line_loop(chars, k, vec) ==
  IF k > Len(chars) THEN Ok(vec)
  ELSE IF chars[k] = Hash THEN from_str_line_loop(chars, k + 1, push(vec, Alive))
  ELSE IF chars[k] = Underscore THEN from_str_line_loop(chars, k + 1, push(vec, Dead))
  ELSE Err(UnknownChar)

\* from_str_line that reads the line as given, without trimming it
from_str_line_untrimmed(str, expected_width) == from_str_line_loop(str, 1, <<>>)

from_str_line(str, expected_width) == from_str_line_loop(trim(str), 1, <<>>)

\* lines.concat()
RECURSIVE concat(_, _)
concat(vecs, k) ==
  IF k > Len(vecs) THEN <<>>
  ELSE LET rest == concat(vecs, k + 1)
           n    == len(vecs[k])
       IN  [i \in 0..(n + len(rest) - 1) |-> IF i < n THEN vecs[k][i] ELSE rest[i - n]]

\* the loop of from_str comparing the width of a line before parsing it
RECURSIVE from_str_loop_width_first(_, _, _, _)
from_str_loop_width_first(str_lines, k, w, acc) ==
  IF k > Len(str_lines) THEN Ok([width |-> w, lines |-> acc])
  ELSE
    LET line_width     == Len(trim(str_lines[k]))
        expected_width == IF w = None THEN line_width ELSE w.val
    IN  IF line_width # expected_width THEN Err(WidthMismatch)
        ELSE
          LET line == from_str_line(str_lines[k], w)
          IN  IF line.tag = "Err" THEN line
              ELSE from_str_loop_width_first(str_lines, k + 1, Some(expected_width),
                                             Append(acc, line.val))

\* the loop of from_str over str.lines(): width is the Option the code keeps
RECURSIVE from_str_loop(_, _, _, _)
from_str_loop(str_lines, k, w, acc) ==
  IF k > Len(str_lines) THEN Ok([width |-> w, lines |-> acc])
  ELSE
    LET line == from_str_line(str_lines[k], w)
    IN  IF line.tag = "Err" THEN line
        ELSE
          LET line_width     == len(line.val)
              expected_width == IF w = None THEN line_width ELSE w.val
          IN  IF line_width # expected_width THEN Err(WidthMismatch)
              ELSE from_str_loop(str_lines, k + 1, Some(expected_width),
                                 Append(acc, line.val))

\* from_str without the test for the empty string
from_str_unguarded(input) ==
  LET str == trim(input)
      r   == from_str_loop(lines(str), 1, None, <<>>)
  IN  IF r.tag = "Err" THEN r
      ELSE
        LET h == Len(r.val.lines)
            c == concat(r.val.lines, 1)
        IN  IF r.val.width = None THEN Panic
            ELSE IF r.val.width.val = 0 \/ h = 0 THEN Panic
            ELSE Ok(Field(r.val.width.val, h, c, dead_vec(len(c))))

\* Field::from_str: Ok(Field), Err(ParseError), or Panic when an unwrap of
\* the width or of a NonZeroUsize conversion fails
from_str(input) ==
  LET str == trim(input)
  IN  IF str = <<>> THEN Err(EmptyString)
      ELSE
        LET r == from_str_loop(lines(str), 1, None, <<>>)
        IN  IF r.tag = "Err" THEN r
            ELSE
              LET h == Len(r.val.lines)
                  c == concat(r.val.lines, 1)
              IN  IF r.val.width = None THEN Panic
                  ELSE IF r.val.width.val = 0 \/ h = 0 THEN Panic
                  ELSE Ok(Field(r.val.width.val, h, c, dead_vec(len(c))))

\* Display that writes ' ' for a dead cell
RECURSIVE fmt_row_blank_dead(_, _)
fmt_row_blank_dead(row, j) ==
  IF j >= len(row) THEN <<Newline>>
  ELSE <<IF row[j] = Alive THEN Hash ELSE Space>> \o fmt_row_blank_dead(row, j + 1)

\* Display for Field: every row, then a line break
RECURSIVE fmt_row(_, _)
fmt_row(row, j) ==
  IF j >= len(row) THEN <<Newline>>
  ELSE <<IF row[j] = Alive THEN Hash ELSE Underscore>> \o fmt_row(row, j + 1)

RECURSIVE fmt_rows(_, _)
fmt_rows(rs, i) ==
  IF i > Len(rs) THEN <<>> ELSE fmt_row(rs[i], 0) \o fmt_rows(rs, i + 1)

to_string(f) == fmt_rows(chunks(f.cells, f.width), 1)

NotParsed == [tag |-> "none"]

-----------------------------------------------------------------------------
(* RingBuffer: a VecDeque with its storage, head and length *)

\* the storage of n slots; a slot never written holds 0 and is never read
raw_buf(n) == [i \in 0..(n - 1) |-> 0]

\* VecDeque::with_capacity(capacity) with the storage it was given
with_capacity(alloc) == [buf |-> raw_buf(alloc), head |-> 0, len |-> 0, cap |-> alloc]

\* RingBuffer::new(capacity): the storage holds at least capacity slots
new_rings(capacity) == {[inner |-> with_capacity(alloc)] : alloc \in capacity..(capacity + MaxSlack)}

\* the smallest storage a growing VecDeque allocates (by element size)
MinNonZeroCaps == {1, 4, 8}

Max(a, b) == IF a >= b THEN a ELSE b

\* the element at logical place i (from 0) of the deque
deque_get(d, i) == d.buf[(d.head + i) % d.cap]

\* VecDeque::pop_front
pop_front(d) ==
  IF d.len = 0 THEN d
  ELSE [d EXCEPT !.head = (d.head + 1) % d.cap, !.len = d.len - 1]

\* the deque grown to new_cap slots, its elements kept in order
grow(d, new_cap) ==
  [buf  |-> [i \in 0..(new_cap - 1) |-> IF i < d.len THEN deque_get(d, i) ELSE 0],
   head |-> 0, len |-> d.len, cap |-> new_cap]

\* VecDeque::push_back: grows when full, by doubling and to at least min_cap
push_back(d, value, min_cap) ==
  LET g == IF d.len = d.cap
           THEN grow(d, Max(Max(d.cap * 2, d.len + 1), min_cap))
           ELSE d
  IN  [g EXCEPT !.buf[(g.head + g.len) % g.cap] = value, !.len = g.len + 1]

\* RingBuffer::push
ring_push(rb, value, min_cap) ==
  LET popped == IF rb.inner.len >= rb.inner.cap THEN pop_front(rb.inner) ELSE rb.inner
  IN  [rb EXCEPT !.inner = push_back(popped, value, min_cap)]

\* RingBuffer::truncate: inner.truncate(0)
ring_truncate(rb) == [rb EXCEPT !.inner.len = 0]

\* RingBuffer::as_slices: the part up to the end of the storage, and the
\* part that wrapped to its start
as_slices(rb) ==
  LET d == rb.inner
  IN  IF d.head + d.len <= d.cap
      THEN << [i \in 1..d.len |-> d.buf[d.head + i - 1]], <<>> >>
      ELSE << [i \in 1..(d.cap - d.head) |-> d.buf[d.head + i - 1]],
              [i \in 1..(d.head + d.len - d.cap) |-> d.buf[i - 1]] >>

ring_len(rb) == rb.inner.len

ring_capacity(rb) == rb.inner.cap

-----------------------------------------------------------------------------
(* lib.rs: the AnimationState and the callbacks the browser runs.  A      *)
(* callback runs to its end before the next one starts.  The clock is      *)
(* represented by the time passed since the last call of calc_spf, which   *)
(* is drawn at each call; what is drawn on the canvas is not modelled.     *)

HistoryCapacity == 100     \* RingBuffer::new(100)
TimeoutMs       == 30      \* the delay handed to setTimeout
SkipIntervalMs  == 3000    \* calc_spf skips the intervals longer than this

\* the times that can have passed between two frames: a short one and one
\* that calc_spf skips
Deltas == {16, 5000}

\* AnimationState::new(); one value for each storage VecDeque may allocate
AnimationState_new ==
  {[next_frame |-> None, next_timeout |-> None, reduce_fps |-> FALSE,
    time_history_ms |-> rb] : rb \in new_rings(HistoryCapacity)}

is_running(s) == (s.next_frame # None) \/ (s.next_timeout # None)

\* the browser before any callback is requested
NewWindow == [frames |-> {}, timeouts |-> {}, frame_id |-> 0, timeout_id |-> 0]

\* window.requestAnimationFrame(callback): a new handle, and the callback pending
request_animation_frame(w) ==
  [window |-> [w EXCEPT !.frames = @ \cup {w.frame_id + 1}, !.frame_id = @ + 1],
   id     |-> w.frame_id + 1]

\* window.cancelAnimationFrame(id): nothing happens when id is not pending
cancel_animation_frame(w, id) == [w EXCEPT !.frames = @ \ {id}]

\* window.setTimeout(callback, timeout)
set_timeout(w, timeout) ==
  [window |-> [w EXCEPT !.timeouts = @ \cup {[id |-> w.timeout_id + 1, timeout |-> timeout]},
                        !.timeout_id = @ + 1],
   id     |-> w.timeout_id + 1]

\* window.clearTimeout(id): nothing happens when id is not pending
clear_timeout(w, id) == [w EXCEPT !.timeouts = {t \in @ : t.id # id}]

\* pause without the second take: a pending timeout stays pending
pause_frame_only(w, s) ==
  [window |-> IF s.next_frame # None THEN cancel_animation_frame(w, s.next_frame.val) ELSE w,
   state  |-> [s EXCEPT !.next_frame = None]]

pause(w, s) ==
  LET w1 == IF s.next_frame # None THEN cancel_animation_frame(w, s.next_frame.val) ELSE w
      w2 == IF s.next_timeout # None THEN clear_timeout(w1, s.next_timeout.val) ELSE w1
  IN  [window |-> w2,
       state  |-> [s EXCEPT !.next_frame = None, !.next_timeout = None]]

\* the closure that requests the next animation frame
request_draw_closure(w, s) ==
  LET r == request_animation_frame(w)
  IN  [window |-> r.window, state |-> [s EXCEPT !.next_frame = Some(r.id)]]

\* calc_spf: the interval is pushed unless it is longer than SkipIntervalMs
calc_spf(s, time_passed_ms) ==
  IF time_passed_ms <= SkipIntervalMs
  THEN [s EXCEPT !.time_history_ms = ring_push(@, time_passed_ms, 4)]
  ELSE s

\* the tick that requests an animation frame whatever reduce_fps is
draw_frame_closure_frame_only(w, f, s, time_passed_ms) ==
  LET s1 == calc_spf(s, time_passed_ms)
      u  == update(f)
  IN  IF u.panic
      THEN [panic |-> TRUE, has_alive |-> FALSE, window |-> w, state |-> s1, field |-> f]
      ELSE IF ~u.ret
      THEN LET p == pause(w, s1)
           IN  [panic |-> FALSE, has_alive |-> FALSE, window |-> p.window,
                state |-> p.state, field |-> u.field]
      ELSE LET r == request_draw_closure(w, s1)
           IN  [panic |-> FALSE, has_alive |-> TRUE, window |-> r.window,
                state |-> r.state, field |-> u.field]

\* the tick: calc_spf, field.update(), then pause or the next request
draw_frame_closure(w, f, s, time_passed_ms) ==
  LET s1 == calc_spf(s, time_passed_ms)
      u  == update(f)
  IN  IF u.panic
      THEN [panic |-> TRUE, has_alive |-> FALSE, window |-> w, state |-> s1, field |-> f]
      ELSE IF ~u.ret
      THEN LET p == pause(w, s1)
           IN  [panic |-> FALSE, has_alive |-> FALSE, window |-> p.window,
                state |-> p.state, field |-> u.field]
      ELSE IF s1.reduce_fps
      THEN LET t == set_timeout(w, TimeoutMs)
           IN  [panic |-> FALSE, has_alive |-> TRUE, window |-> t.window,
                state |-> [s1 EXCEPT !.next_timeout = Some(t.id)], field |-> u.field]
      ELSE LET r == request_draw_closure(w, s1)
           IN  [panic |-> FALSE, has_alive |-> TRUE, window |-> r.window,
                state |-> r.state, field |-> u.field]

\* the click on Play/Pause
play_closure(w, f, s, time_passed_ms) ==
  IF is_running(s)
  THEN LET p == pause(w, s)
       IN  [panic |-> FALSE, ticked |-> FALSE, has_alive |-> FALSE,
            window |-> p.window, state |-> p.state, field |-> f]
  ELSE LET d == draw_frame_closure(w, f, s, time_passed_ms)
       IN  [panic |-> d.panic, ticked |-> TRUE, has_alive |-> d.has_alive,
            window |-> d.window, state |-> d.state, field |-> d.field]

\* the click on Toggle FPS
fps_closure(s) ==
  [s EXCEPT !.reduce_fps = ~@, !.time_history_ms = ring_truncate(@)]

\* the click on a button that replaces the field by factory()
init_closure(s, new_field) ==
  [state |-> [s EXCEPT !.time_history_ms = ring_truncate(@)], field |-> new_field]

\* the click on the canvas without the test of is_running()
edit_closure_unguarded(f, s, row, col) ==
  LET t == toggle_by_coords(f, Min(row, get_height(f) - 1), Min(col, get_width(f) - 1))
  IN  [called |-> TRUE, ret |-> t.ret, field |-> t.field]

\* the click on the canvas, at the row and column the pointer is over
edit_closure(f, s, row, col) ==
  IF is_running(s)
  THEN [called |-> FALSE, ret |-> None, field |-> f]
  ELSE LET t == toggle_by_coords(f, Min(row, get_height(f) - 1), Min(col, get_width(f) - 1))
       IN  [called |-> TRUE, ret |-> t.ret, field |-> t.field]

NoEvent == [op |-> "none", was_running |-> FALSE, reduce_fps |-> FALSE, ticked |-> FALSE,
            has_alive |-> FALSE, called |-> FALSE, cells |-> <<>>]

NoTwin == Field(0, 0, <<>>, <<>>)

\* lib.rs is not running and there is no second Field
NoHost ==
  /\ state = [next_frame |-> None, next_timeout |-> None, reduce_fps |-> FALSE,
              time_history_ms |-> [inner |-> with_capacity(0)]]
  /\ window = NewWindow
  /\ event = NoEvent
  /\ twin = NoTwin

-----------------------------------------------------------------------------
(* The grid under update and toggle_by_coords *)

\* no RingBuffer is constructed
NoRing ==
  /\ ring = [inner |-> with_capacity(0)]
  /\ ring_hist = [capacity |-> 0, pushed |-> <<>>, pushes |-> 0]


Shapes == {wh \in (1..MaxDim) \X (1..MaxDim) : wh[1] * wh[2] <= MaxCells}

\* arguments of toggle_by_coords: every row and column, and one past the last
ArgRows == 0..height
ArgCols == 0..width

NoCall == [op |-> "construct", row |-> 0, col |-> 0, ret |-> None,
           cells |-> <<>>, swap_cells |-> <<>>, live |-> <<>>]

\* the state after a constructor: c names it and holds its arguments
Constructed(f, c) ==
  /\ width = f.width
  /\ height = f.height
  /\ cells = f.cells
  /\ swap_cells = f.swap_cells
  /\ call = c
  /\ gen = 0
  /\ edits = 0
  /\ panicked = FALSE
  /\ text = <<>>
  /\ parsed = NotParsed
  /\ shown = <<>>
  /\ NoRing
  /\ NoHost

\* Field::new or Field::generate_by_fn with any predicate
InitGrid ==
  \E wh \in Shapes :
    \/ Constructed(new(wh[1], wh[2]),
                   [op |-> "new", width |-> wh[1], height |-> wh[2]])
    \/ \E random_bool \in SUBSET (0..(wh[1] * wh[2] - 1)) :
         Constructed(generate_by_fn(wh[1], wh[2], random_bool),
                     [op |-> "generate_by_fn", width |-> wh[1], height |-> wh[2],
                      random_bool |-> random_bool])

DoUpdate ==
  /\ ~panicked
  /\ width > 0
  /\ \E r \in {update(self)} :
         /\ cells' = r.field.cells
         /\ swap_cells' = r.field.swap_cells
         /\ panicked' = r.panic
         /\ call' = [op |-> "update", row |-> 0, col |-> 0, ret |-> r.ret,
                     cells |-> cells, swap_cells |-> swap_cells, live |-> r.live]
  /\ gen' = gen + 1
  /\ UNCHANGED <<width, height, edits, text, parsed, shown>>
  /\ UNCHANGED ring_vars
  /\ UNCHANGED host_vars

Update ==
  /\ gen < MaxGen
  /\ DoUpdate

Toggle ==
  /\ ~panicked
  /\ width > 0
  /\ edits < MaxEdits
  /\ \E row \in ArgRows, col \in ArgCols :
       \E r \in {toggle_by_coords(self, row, col)} :
           /\ cells' = r.field.cells
           /\ swap_cells' = r.field.swap_cells
           /\ panicked' = (r.ret = Panic)
           /\ call' = [op |-> "toggle", row |-> row, col |-> col, ret |-> r.ret,
                       cells |-> cells, swap_cells |-> swap_cells, live |-> <<>>]
  /\ edits' = edits + 1
  /\ UNCHANGED <<width, height, gen, text, parsed, shown>>
  /\ UNCHANGED ring_vars
  /\ UNCHANGED host_vars


-----------------------------------------------------------------------------
(* Parsing and display: from_str on any short text, then to_string *)

Alphabet == {Hash, Underscore, Space, Newline, Return, Letter}

Texts == UNION {[1..n -> Alphabet] : n \in 0..MaxLen}

NoField ==
  /\ width = 0
  /\ height = 0
  /\ cells = <<>>
  /\ swap_cells = <<>>

InitParse ==
  /\ text \in Texts
  /\ NoField
  /\ call = NoCall
  /\ gen = 0
  /\ edits = 0
  /\ panicked = FALSE
  /\ parsed = NotParsed
  /\ shown = <<>>
  /\ NoRing
  /\ NoHost

Parse ==
  /\ ~panicked
  /\ parsed = NotParsed
  /\ \E r \in {from_str(text)} :
       /\ parsed' = r
       /\ panicked' = (r = Panic)
       /\ IF r.tag = "Ok"
          THEN /\ width' = r.val.width
               /\ height' = r.val.height
               /\ cells' = r.val.cells
               /\ swap_cells' = r.val.swap_cells
          ELSE UNCHANGED field_vars
  /\ UNCHANGED <<call, gen, edits, text, shown>>
  /\ UNCHANGED ring_vars
  /\ UNCHANGED host_vars

Show ==
  /\ ~panicked
  /\ width > 0
  /\ shown = <<>>
  /\ shown' = to_string(self)
  /\ UNCHANGED <<width, height, cells, swap_cells, call, gen, edits, panicked, text, parsed>>
  /\ UNCHANGED ring_vars
  /\ UNCHANGED host_vars

NextParse == Parse \/ Show

SpecParse == InitParse /\ [][NextParse]_vars

-----------------------------------------------------------------------------
(* The glider scenario of test_glider *)

\* a text of the test: a line break, then each row and a line break; a row
\* is given by the set of its columns that hold '#'
RECURSIVE pattern_rows(_, _, _)
pattern_rows(w, alive, i) ==
  IF i > Len(alive) THEN <<>>
  ELSE [j \in 1..w |-> IF (j - 1) \in alive[i] THEN Hash ELSE Underscore]
       \o <<Newline>> \o pattern_rows(w, alive, i + 1)

pattern(w, alive) == <<Newline>> \o pattern_rows(w, alive, 1)

GliderWidth == 7

init_state == pattern(GliderWidth, << {2}, {3}, {1, 2, 3}, {}, {} >>)

InitGlider ==
  /\ text = init_state
  /\ parsed = from_str(init_state)
  /\ parsed.tag = "Ok"
  /\ width = parsed.val.width
  /\ height = parsed.val.height
  /\ cells = parsed.val.cells
  /\ swap_cells = parsed.val.swap_cells
  /\ call = NoCall
  /\ gen = 0
  /\ edits = 0
  /\ panicked = FALSE
  /\ shown = <<>>
  /\ NoRing
  /\ NoHost

\* a Field of any small shape and content, or the glider parsed from its text
Init == InitGrid \/ InitGlider

Next == Update \/ Toggle

Spec == Init /\ [][Next]_vars

GliderUpdate ==
  /\ gen < GliderGen
  /\ DoUpdate

NextGlider == GliderUpdate \/ Toggle

SpecGlider == InitGlider /\ [][NextGlider]_vars

-----------------------------------------------------------------------------
(* Reference definitions of the properties *)

AfterUpdate == call.op = "update" /\ ~panicked
AfterToggle == call.op = "toggle"

Rows == 0..(height - 1)
Cols == 0..(width - 1)

\* the index of the cell (a mod height, b mod width), for a >= -1 and b >= -1
TorusIndex(a, b) == ((a + height) % height) * width + ((b + width) % width)

Offsets == ({-1, 0, 1} \X {-1, 0, 1}) \ {<<0, 0>>}

\* the number of the 8 offsets that lead from (r, c) to a live cell of gen
TorusCount(g, r, c) ==
  Cardinality({o \in Offsets : g[TorusIndex(r + o[1], c + o[2])] = Alive})

\* the rule of the game applied to the cell (r, c) of the generation g
RuleAlive(g, r, c) ==
  \/ g[r * width + c] = Alive /\ TorusCount(g, r, c) \in {2, 3}
  \/ g[r * width + c] = Dead  /\ TorusCount(g, r, c) = 3

AllDead(g) == \A i \in DOMAIN g : g[i] = Dead

\* row i (from 0) of a buffer
RowOf(g, i) == [j \in Cols |-> g[i * width + j]]

-----------------------------------------------------------------------------
(* Claims on get_by_coords, toggle_by_coords and update *)

\* C1: for every grid and every (row, col) with row >= height or col >= width,
\* get_by_coords and toggle_by_coords return None without panicking and leave
\* both buffers unchanged.
C1_OutOfRangeReturnsNone ==
  width > 0 =>
    /\ \A row \in ArgRows, col \in ArgCols :
         (row >= height \/ col >= width) => get_by_coords(self, row, col) = None
    /\ (AfterToggle /\ (call.row >= height \/ call.col >= width)) =>
         /\ call.ret = None
         /\ ~panicked
         /\ cells = call.cells
         /\ swap_cells = call.swap_cells

\* C2: for every grid and every (row, col) with row < height and col < width,
\* get_by_coords returns Some(current[row*width + col]); toggle_by_coords
\* returns Some(()) and flips exactly that cell, leaving every other cell and
\* the previous buffer unchanged.
C2_InRangeAccess ==
  width > 0 =>
    /\ \A row \in Rows, col \in Cols :
         get_by_coords(self, row, col) = Some(cells[row * width + col])
    /\ (AfterToggle /\ call.row < height /\ call.col < width) =>
         /\ call.ret = Some(Unit)
         /\ cells = [call.cells EXCEPT ![call.row * width + call.col] = other(@)]
         /\ swap_cells = call.swap_cells

\* C3: after update() a cell is Alive iff, in the generation current before
\* the call, it was Alive with 2 or 3 live neighbours or Dead with exactly 3;
\* every other cell is Dead; the counts are those of the pre-step generation.
C3_UpdateAppliesRule ==
  AfterUpdate =>
    \A r \in Rows, c \in Cols :
      /\ cells[r * width + c] \in CellValue
      /\ (cells[r * width + c] = Alive) <=> RuleAlive(call.cells, r, c)

\* a step in which a live cell survives, a live cell dies, a dead cell is
\* born and a dead cell stays dead
C3_Witness ==
  /\ AfterUpdate
  /\ \E i \in DOMAIN cells : call.cells[i] = Alive /\ cells[i] = Alive
  /\ \E i \in DOMAIN cells : call.cells[i] = Alive /\ cells[i] = Dead
  /\ \E i \in DOMAIN cells : call.cells[i] = Dead /\ cells[i] = Alive
  /\ \E i \in DOMAIN cells : call.cells[i] = Dead /\ cells[i] = Dead

\* C4: the 8 cells count_live_neighbours reads for (r, c) are the cells
\* ((r + dr) mod height, (c + dc) mod width) for the 8 offsets other than
\* (0, 0), and the count update() uses is the number of live ones among them.
C4_NeighboursAreToroidal ==
  width > 0 =>
    \A r \in Rows, c \in Cols :
      /\ neighbour_reads(self, r, c, height - 1, width - 1) =
           << TorusIndex(r - 1, c - 1), TorusIndex(r - 1, c), TorusIndex(r - 1, c + 1),
              TorusIndex(r, c - 1),                           TorusIndex(r, c + 1),
              TorusIndex(r + 1, c - 1), TorusIndex(r + 1, c), TorusIndex(r + 1, c + 1) >>
      /\ AfterUpdate => call.live[r * width + c] = TorusCount(call.cells, r, c)

\* on an N x N grid whose only live cell is (N-1, N-1), the cell (0, 0) counts it
C4_Witness ==
  /\ AfterUpdate
  /\ width = height
  /\ width >= 3
  /\ \A i \in DOMAIN call.cells :
       (call.cells[i] = Alive) <=> (i = (height - 1) * width + (width - 1))
  /\ call.live[0] = 1

\* C6: update() returns true iff at least one cell of the current generation
\* is Alive after the step, and false iff the grid is extinct after it.
C6_ReturnsHasAlive ==
  AfterUpdate => (call.ret <=> \E i \in DOMAIN cells : cells[i] = Alive)

\* a grid with live cells that goes extinct in the step
C6_Witness ==
  /\ AfterUpdate
  /\ ~AllDead(call.cells)
  /\ AllDead(cells)
  /\ call.ret = FALSE

\* C7: update() on an all-Dead current generation yields an all-Dead current
\* generation and returns false, for every size and every number of steps.
C7_DeadStaysDead ==
  (AfterUpdate /\ AllDead(call.cells)) => (AllDead(cells) /\ call.ret = FALSE)

C7_Witness ==
  /\ AfterUpdate
  /\ gen >= 2
  /\ width = 1
  /\ AllDead(call.cells)
  /\ AllDead(cells)

\* C8: after update(), view_old() is what view() was before the call, view()
\* is the freshly computed generation, and rows_with_old() pairs row i of the
\* new generation with row i of the prior one.
C8_OldViewIsPriorView ==
  AfterUpdate =>
    /\ view_old(self) = call.cells
    /\ view(self) = [i \in DOMAIN call.cells |->
                       IF RuleAlive(call.cells, i \div width, i % width)
                       THEN Alive ELSE Dead]
    /\ rows_with_old(self) =
         [i \in 1..height |-> <<RowOf(cells, i - 1), RowOf(call.cells, i - 1)>>]

\* a second step: the buffer that update() overwrote held an older generation
C8_Witness ==
  /\ AfterUpdate
  /\ gen >= 2
  /\ call.swap_cells # cells
  /\ call.swap_cells # call.cells
  /\ cells # swap_cells

-----------------------------------------------------------------------------
(* Claim on the glider scenario *)

\* the generations test_glider expects after 1, 2, 3 and 4 steps
expected_state_1 == pattern(GliderWidth, << {}, {1, 3}, {2, 3}, {2}, {} >>)
expected_state_2 == pattern(GliderWidth, << {}, {3}, {1, 3}, {2, 3}, {} >>)
expected_state_3 == pattern(GliderWidth, << {}, {2}, {3, 4}, {2, 3}, {} >>)
expected_state_4 == pattern(GliderWidth, << {}, {3}, {4}, {2, 3, 4}, {} >>)

\* C5: from the 7x5 glider, successive update() calls produce exactly the
\* listed generations; after four steps the glider is the starting pattern
\* moved one row down and one column right.
C5_GliderGenerations ==
  (edits = 0 /\ ~panicked) =>
    /\ gen = 0 => trim(to_string(self)) = trim(init_state)
    /\ gen = 1 => trim(to_string(self)) = trim(expected_state_1)
    /\ gen = 2 => trim(to_string(self)) = trim(expected_state_2)
    /\ gen = 3 => trim(to_string(self)) = trim(expected_state_3)
    /\ gen = 4 => /\ trim(to_string(self)) = trim(expected_state_4)
                  /\ \A r \in Rows, c \in Cols :
                       cells[TorusIndex(r + 1, c + 1)] = parsed.val.cells[r * width + c]

C5_Witness ==
  /\ gen = 4
  /\ edits = 0
  /\ ~panicked
  /\ call.op = "update"
  /\ cells # parsed.val.cells

-----------------------------------------------------------------------------
(* Reference definitions for the text format *)

IsSpace(ch) == ch \in {Space, Newline, Return}

\* a text without the whitespace at its two ends
RECURSIVE Strip(_)
Strip(t) ==
  IF t = <<>> THEN t
  ELSE IF IsSpace(Head(t)) THEN Strip(Tail(t))
  ELSE IF IsSpace(t[Len(t)]) THEN Strip(SubSeq(t, 1, Len(t) - 1))
  ELSE t

\* the places of the line breaks of t, with the two ends of t
Breaks(t) == {0, Len(t) + 1} \cup {k \in 1..Len(t) : t[k] = Newline}

\* the stripped lines of t that hold a character, in order: the lines of t
\* from its first non-blank line to its last one
RawLine(t, a) ==
  LET b == CHOOSE k \in Breaks(t) : k > a /\ \A m \in Breaks(t) : m > a => k <= m
  IN  Strip(SubSeq(t, a + 1, b - 1))

LineStarts(t) ==
  LET starts   == Breaks(t) \ {Len(t) + 1}
      nonblank == {a \in starts : RawLine(t, a) # <<>>}
  IN  {a \in starts : /\ \E n \in nonblank : n <= a
                      /\ \E n \in nonblank : n >= a}

TextLines(t) ==
  LET S == LineStarts(t)
  IN  [i \in 1..Cardinality(S) |->
         RawLine(t, CHOOSE a \in S : Cardinality({m \in S : m < a}) = i - 1)]

Blank(t) == \A k \in 1..Len(t) : IsSpace(t[k])

BadLine(l) == \E k \in 1..Len(l) : l[k] \notin {Hash, Underscore}

HasUnknownChar(t) == \E i \in 1..Len(TextLines(t)) : BadLine(TextLines(t)[i])

WidthsDiffer(t) ==
  \E i, j \in 1..Len(TextLines(t)) : Len(TextLines(t)[i]) # Len(TextLines(t)[j])

\* lines of equal length made only of '#' and '_', with whitespace around them
InGrammar(t) == ~Blank(t) /\ ~HasUnknownChar(t) /\ ~WidthsDiffer(t)

\* each line trimmed and followed by exactly one line break
RECURSIVE JoinLines(_, _)
JoinLines(ls, i) ==
  IF i > Len(ls) THEN <<>> ELSE ls[i] \o <<Newline>> \o JoinLines(ls, i + 1)

Normalized(t) == JoinLines(TextLines(t), 1)

\* line i is the first line whose length is not the first line's
FirstMismatch(t, i) ==
  /\ Len(TextLines(t)[i]) # Len(TextLines(t)[1])
  /\ \A j \in 1..(i - 1) : Len(TextLines(t)[j]) = Len(TextLines(t)[1])

\* line i is the first line with a character other than '#' and '_'
FirstBad(t, i) ==
  /\ BadLine(TextLines(t)[i])
  /\ \A j \in 1..(i - 1) : ~BadLine(TextLines(t)[j])

Parsed == parsed # NotParsed

-----------------------------------------------------------------------------
(* Claims on from_str and to_string *)

\* C9: for any text satisfying the grammar, from_str succeeds and to_string
\* of the result is the whitespace-normalized text: each line trimmed and
\* followed by exactly one line break.
C9_RoundTrip ==
  (Parsed /\ InGrammar(text)) =>
    /\ parsed.tag = "Ok"
    /\ shown # <<>> => shown = Normalized(text)

\* a text of two lines with a space in it, parsed and displayed
C9_Witness ==
  /\ InGrammar(text)
  /\ shown # <<>>
  /\ height = 2
  /\ \E k \in 1..Len(text) : text[k] = Space
  /\ shown # text

\* C10 as stated: WidthMismatch when the trimmed lines' character counts
\* differ, UnknownChar when any line holds a character other than '#' and
\* '_', EmptyString when the text is empty or whitespace-only; an error and
\* no grid in each case.
C10_ErrorPerDefect ==
  Parsed =>
    /\ WidthsDiffer(text) => (parsed = Err(WidthMismatch) /\ NoField)
    /\ HasUnknownChar(text) => (parsed = Err(UnknownChar) /\ NoField)
    /\ Blank(text) => (parsed = Err(EmptyString) /\ NoField)

\* C10 as amended: WidthMismatch when no line up to and including the first
\* line of a different length holds an unknown character; UnknownChar when no
\* line before the first line with an unknown character has a different
\* length; EmptyString when the text is empty or whitespace-only; an error
\* and no grid whenever the text has any of the three defects.
C10_ErrorOfFirstDefect ==
  Parsed =>
    /\ \A i \in 1..Len(TextLines(text)) :
         (FirstMismatch(text, i) /\ \A j \in 1..i : ~BadLine(TextLines(text)[j]))
            => parsed = Err(WidthMismatch)
    /\ \A i \in 1..Len(TextLines(text)) :
         (FirstBad(text, i) /\ \A j \in 1..(i - 1) : ~FirstMismatch(text, j))
            => parsed = Err(UnknownChar)
    /\ Blank(text) => parsed = Err(EmptyString)
    /\ (WidthsDiffer(text) \/ HasUnknownChar(text) \/ Blank(text)) =>
         (parsed.tag = "Err" /\ parsed.err \in ParseError /\ NoField)

\* a text with both defects: its lines differ in length and the later, longer
\* one holds an unknown character
C10_Witness ==
  /\ Parsed
  /\ WidthsDiffer(text)
  /\ HasUnknownChar(text)
  /\ parsed = Err(WidthMismatch)

\* C11: when from_str succeeds, width is the common character count of the
\* trimmed lines, height is the number of lines, current[r*width + c] is
\* Alive iff character c of line r is '#', and the other buffer is all Dead
\* with the same length width*height.
C11_ParsedGrid ==
  (Parsed /\ parsed.tag = "Ok") =>
    /\ height = Len(TextLines(text))
    /\ \A r \in Rows : Len(TextLines(text)[r + 1]) = width
    /\ DOMAIN cells = 0..(width * height - 1)
    /\ \A r \in Rows, c \in Cols :
         (cells[r * width + c] = Alive) <=> (TextLines(text)[r + 1][c + 1] = Hash)
    /\ \A r \in Rows, c \in Cols : cells[r * width + c] \in CellValue
    /\ DOMAIN swap_cells = 0..(width * height - 1)
    /\ AllDead(swap_cells)

\* a parsed text of two lines whose rows differ
C11_Witness ==
  /\ Parsed
  /\ parsed.tag = "Ok"
  /\ height = 2
  /\ width = 2
  /\ cells[0] # cells[1]
  /\ RowOf(cells, 0) # RowOf(cells, 1)

-----------------------------------------------------------------------------
(* The ring buffer under push and truncate *)

Values == 1..MaxVal

InitRing ==
  /\ \E capacity \in 0..MaxCap :
       /\ ring \in new_rings(capacity)
       /\ ring_hist = [capacity |-> capacity, pushed |-> <<>>, pushes |-> 0]
  /\ NoField
  /\ call = NoCall
  /\ gen = 0
  /\ edits = 0
  /\ panicked = FALSE
  /\ text = <<>>
  /\ parsed = NotParsed
  /\ shown = <<>>
  /\ NoHost

RingPush ==
  /\ ring_hist.pushes < MaxPushes
  /\ \E value \in Values, min_cap \in MinNonZeroCaps :
       /\ ring' = ring_push(ring, value, min_cap)
       /\ ring_hist' = [ring_hist EXCEPT !.pushed = Append(@, value),
                                         !.pushes = @ + 1]
  /\ UNCHANGED <<width, height, cells, swap_cells, call, gen, edits, panicked,
                 text, parsed, shown>>
  /\ UNCHANGED host_vars

RingTruncate ==
  /\ ring' = ring_truncate(ring)
  /\ ring_hist' = [ring_hist EXCEPT !.pushed = <<>>]
  /\ UNCHANGED <<width, height, cells, swap_cells, call, gen, edits, panicked,
                 text, parsed, shown>>
  /\ UNCHANGED host_vars

NextRing == RingPush \/ RingTruncate

SpecRing == InitRing /\ [][NextRing]_vars

\* what snapshot readers see: as_slices().0 followed by as_slices().1
Contents == as_slices(ring)[1] \o as_slices(ring)[2]

\* the last n elements of a sequence
LastOf(q, n) == SubSeq(q, Len(q) - n + 1, Len(q))

\* C12: after any sequence of push and truncate, the contents are exactly the
\* last min(n, capacity) values pushed since construction or the most recent
\* truncate, oldest first, for the capacity passed to new.
C12_LastCapacityValues ==
  Contents = LastOf(ring_hist.pushed, Min(Len(ring_hist.pushed), ring_hist.capacity))

\* C13: len() never exceeds the capacity passed to new, for every capacity
\* including 0.
C13_LenWithinCapacity == ring_len(ring) <= ring_hist.capacity

\* C14: capacity() returns the value passed to new(capacity) after
\* construction and after every sequence of push and truncate.
C14_CapacityFixed == ring_capacity(ring) = ring_hist.capacity

-----------------------------------------------------------------------------
(* Claims on the shape of the Field *)

HasShape(v) == DOMAIN v = 0..(width * height - 1)

\* C15: in every state reachable from a constructed grid by update and
\* toggle_by_coords, both buffers have length width*height, and get_width()
\* and get_height() return the values fixed at construction.
C15_BuffersKeepShape ==
  /\ [](width > 0 => (HasShape(cells) /\ HasShape(swap_cells)
                       /\ len(cells) = width * height
                       /\ len(swap_cells) = width * height))
  /\ [][get_width(self)' = get_width(self) /\ get_height(self)' = get_height(self)]_vars

\* a grid that is not square, after a toggle and then an update
C15_Witness ==
  /\ AfterUpdate
  /\ edits >= 1
  /\ width # height
  /\ cells # swap_cells

\* C16: after generate_by_fn(width, height, p) cell i of the current buffer
\* is Alive iff p(i), for every i in 0..width*height; after new(width,
\* height) every current cell is Dead; the previous buffer is all Dead.
C16_FreshGrid ==
  /\ call.op = "generate_by_fn" =>
       /\ width = call.width
       /\ height = call.height
       /\ HasShape(cells)
       /\ \A i \in 0..(width * height - 1) :
            (cells[i] = Alive) <=> (i \in call.random_bool)
       /\ \A i \in 0..(width * height - 1) : cells[i] \in CellValue
       /\ HasShape(swap_cells)
       /\ AllDead(swap_cells)
  /\ call.op = "new" =>
       /\ width = call.width
       /\ height = call.height
       /\ HasShape(cells)
       /\ AllDead(cells)
       /\ HasShape(swap_cells)
       /\ AllDead(swap_cells)

\* a grid that is not square, generated Alive in its last cell only
C16_Witness ==
  /\ call.op = "generate_by_fn"
  /\ width # height
  /\ call.random_bool = {width * height - 1}
  /\ cells[width * height - 1] = Alive

\* C17: rows() yields height slices of width elements whose concatenation in
\* order is view(); rows_with_old() yields height pairs, the i-th being (row i
\* of the current generation, row i of the previous one); every call starts
\* again from row 0.
C17_RowsTileTheView ==
  width > 0 =>
    /\ \E r \in {rows(self)} :
         /\ Len(r) = height
         /\ \A i \in Rows :
              /\ DOMAIN r[i + 1] = Cols
              /\ \A j \in Cols : r[i + 1][j] = view(self)[i * width + j]
    /\ \E p \in {rows_with_old(self)} :
         /\ Len(p) = height
         /\ \A i \in Rows :
              p[i + 1] = <<RowOf(view(self), i), RowOf(view_old(self), i)>>
    /\ rows(self)[1] = RowOf(cells, 0)
    /\ rows_with_old(self)[1][1] = RowOf(cells, 0)

\* a grid that is not square, after an update, whose rows differ from each
\* other and from the rows of the previous generation
C17_Witness ==
  /\ AfterUpdate
  /\ width # height
  /\ height >= 2
  /\ width >= 2
  /\ rows(self)[1] # rows(self)[2]
  /\ rows_with_old(self)[2][1] # rows_with_old(self)[2][2]

\* C18: count_live_neighbours with max_row = height-1 and max_col = width-1
\* and count_live_neighbours_slow return the same value for every cell of
\* every grid, width 1, height 1, width 2 and height 2 included.
C18_SlowAgrees ==
  width > 0 =>
    \A row \in Rows, col \in Cols :
      count_live_neighbours(self, row, col, height - 1, width - 1)
        = count_live_neighbours_slow(self, row, col)

\* C19: update() never fails: in every step of every run, for every cell
\* (square grid or not, 1xN and Nx1 included) the indices it reads in the
\* current buffer and writes in the other one are below width*height.
C19_UpdateInBounds ==
  call.op = "update" =>
    /\ ~panicked
    /\ \E f \in {Field(width, height, call.cells, call.swap_cells)} :
         \A row \in Rows, col \in Cols :
           /\ \E reads \in {neighbour_reads(f, row, col, height - 1, width - 1)} :
                \A k \in 1..8 : /\ reads[k] \in 0..(width * height - 1)
                                 /\ reads[k] < len(f.cells)
           /\ coords_to_index_unchecked(f, row, col) < width * height
           /\ coords_to_index_unchecked(f, row, col) < len(f.swap_cells)

\* two updates of a grid of one row of three cells
C19_Witness ==
  /\ AfterUpdate
  /\ gen = 2
  /\ height = 1
  /\ width = 3

\* C20: from_str never panics and never returns a grid with a zero dimension:
\* for every text it returns a ParseError or a grid with width >= 1 and
\* height >= 1.
C20_ParseNeverPanics ==
  Parsed =>
    /\ parsed # Panic
    /\ ~panicked
    /\ parsed.tag \in {"Ok", "Err"}
    /\ parsed.tag = "Err" => parsed.err \in ParseError
    /\ parsed.tag = "Ok" =>
         /\ parsed.val.width >= 1
         /\ parsed.val.height >= 1
         /\ get_width(self) >= 1
         /\ get_height(self) >= 1

\* a text of white space only, with a line break in it, was given to from_str
C20_Witness ==
  /\ Parsed
  /\ text # <<>>
  /\ Blank(text)
  /\ \E k \in 1..Len(text) : text[k] = Newline
  /\ parsed = Err(EmptyString)

-----------------------------------------------------------------------------
(* lib.rs: the draw loop under clicks, animation frames and timeouts *)

\* the text of make_glider_field, cut down to 2 rows of 3 cells
glider_field_text == pattern(3, << {0, 1}, {} >>)

make_glider_field == from_str(glider_field_text).val

\* the predicates handed to generate_by_fn, as the sets of indices they hold
\* on: that of Fixed, and of the outcomes of Random none and all
Predicates ==
  LET indices == 0..(FieldSize * FieldSize - 1)
  IN  { {i \in indices : (i % 2 = 0) \/ (i % 7 = 0)}, {}, indices }

\* what the factories of the buttons return: Field::new (Clear),
\* generate_by_fn (Random, Fixed), and the field parsed from a text (Glider)
Factories ==
  {new(FieldSize, FieldSize)}
    \cup {generate_by_fn(FieldSize, FieldSize, random_bool) : random_bool \in Predicates}
    \cup {make_glider_field}

\* run(): a random field, a new AnimationState, nothing requested yet
InitHost ==
  /\ \E random_bool \in Predicates :
       \E f \in {generate_by_fn(FieldSize, FieldSize, random_bool)} :
         /\ width = f.width
         /\ height = f.height
         /\ cells = f.cells
         /\ swap_cells = f.swap_cells
  /\ state \in AnimationState_new
  /\ window = NewWindow
  /\ event = NoEvent
  /\ twin = NoTwin
  /\ call = NoCall
  /\ gen = 0
  /\ edits = 0
  /\ panicked = FALSE
  /\ text = <<>>
  /\ parsed = NotParsed
  /\ shown = <<>>
  /\ NoRing

\* the event of a callback that ran in the present state
Event(op, ticked, has_alive, called) ==
  [op |-> op, was_running |-> is_running(state), reduce_fps |-> state.reduce_fps,
   ticked |-> ticked, has_alive |-> has_alive, called |-> called, cells |-> cells]

\* the click on Play/Pause; gen counts the ticks of the run
PlayClick ==
  /\ ~panicked
  /\ is_running(state) \/ gen < MaxTicks
  /\ \E time_passed_ms \in Deltas :
       \E r \in {play_closure(window, self, state, time_passed_ms)} :
         /\ window' = r.window
         /\ state' = r.state
         /\ cells' = r.field.cells
         /\ swap_cells' = r.field.swap_cells
         /\ panicked' = r.panic
         /\ gen' = IF r.ticked THEN gen + 1 ELSE gen
         /\ event' = Event("play", r.ticked, r.has_alive, FALSE)
  /\ UNCHANGED <<width, height, call, edits, text, parsed, shown, twin>>
  /\ UNCHANGED ring_vars

\* the browser runs a pending animation frame callback: the tick
FrameFires ==
  /\ ~panicked
  /\ gen < MaxTicks
  /\ \E id \in window.frames, time_passed_ms \in Deltas :
       \E r \in {draw_frame_closure([window EXCEPT !.frames = @ \ {id}], self, state,
                                    time_passed_ms)} :
         /\ window' = r.window
         /\ state' = r.state
         /\ cells' = r.field.cells
         /\ swap_cells' = r.field.swap_cells
         /\ panicked' = r.panic
         /\ event' = Event("frame", TRUE, r.has_alive, FALSE)
  /\ gen' = gen + 1
  /\ UNCHANGED <<width, height, call, edits, text, parsed, shown, twin>>
  /\ UNCHANGED ring_vars

\* the browser runs a pending timeout callback: request_draw_closure
TimeoutFires ==
  /\ ~panicked
  /\ \E t \in window.timeouts :
       \E r \in {request_draw_closure([window EXCEPT !.timeouts = @ \ {t}], state)} :
         /\ window' = r.window
         /\ state' = r.state
  /\ event' = Event("timeout", FALSE, FALSE, FALSE)
  /\ UNCHANGED <<width, height, cells, swap_cells, call, gen, edits, panicked,
                 text, parsed, shown, twin>>
  /\ UNCHANGED ring_vars

\* the click on Toggle FPS
FpsClick ==
  /\ ~panicked
  /\ state' = fps_closure(state)
  /\ event' = Event("fps", FALSE, FALSE, FALSE)
  /\ UNCHANGED <<width, height, cells, swap_cells, call, gen, edits, panicked,
                 text, parsed, shown, twin, window>>
  /\ UNCHANGED ring_vars

\* the click on Clear, Random, Fixed or Glider
InitClick ==
  /\ ~panicked
  /\ \E new_field \in Factories :
       \E r \in {init_closure(state, new_field)} :
         /\ state' = r.state
         /\ width' = r.field.width
         /\ height' = r.field.height
         /\ cells' = r.field.cells
         /\ swap_cells' = r.field.swap_cells
  /\ event' = Event("init", FALSE, FALSE, FALSE)
  /\ UNCHANGED <<call, gen, edits, panicked, text, parsed, shown, twin, window>>
  /\ UNCHANGED ring_vars

\* the click on the canvas; edits counts the calls of toggle_by_coords
EditClick ==
  /\ ~panicked
  /\ edits < MaxEdits
  /\ \E row \in 0..height, col \in 0..width :
       \E r \in {edit_closure(self, state, row, col)} :
         /\ cells' = r.field.cells
         /\ swap_cells' = r.field.swap_cells
         /\ panicked' = (r.ret = Panic)
         /\ edits' = IF r.called THEN edits + 1 ELSE edits
         /\ event' = Event("edit", FALSE, FALSE, r.called)
  /\ UNCHANGED <<width, height, call, gen, text, parsed, shown, twin, window, state>>
  /\ UNCHANGED ring_vars

NextHost == PlayClick \/ FrameFires \/ TimeoutFires \/ FpsClick \/ InitClick \/ EditClick

SpecHost == InitHost /\ [][NextHost]_vars

-----------------------------------------------------------------------------
(* Claims on the draw loop of lib.rs *)

\* the callbacks the browser holds pending
Pending == window.frames \cup window.timeouts

\* C21: every tick steps the grid exactly once; when update() returned true
\* exactly one next callback is pending afterwards, a timeout of 30 ms if
\* reduce_fps is set and an animation frame otherwise; when it returned false
\* nothing is pending and is_running() is false.
C21_TickStepsAndSchedules ==
  event.ticked =>
    /\ ~panicked
    /\ swap_cells = event.cells
    /\ \A r \in Rows, c \in Cols :
         (cells[r * width + c] = Alive) <=> RuleAlive(event.cells, r, c)
    /\ event.has_alive <=> ~AllDead(cells)
    /\ event.has_alive =>
         IF event.reduce_fps
         THEN /\ window.timeouts = {[id |-> window.timeout_id, timeout |-> TimeoutMs]}
              /\ window.frames = {}
              /\ state.next_timeout = Some(window.timeout_id)
         ELSE /\ window.frames = {window.frame_id}
              /\ window.timeouts = {}
              /\ state.next_frame = Some(window.frame_id)
    /\ ~event.has_alive =>
         /\ Pending = {}
         /\ ~is_running(state)

\* a tick run by an animation frame that set a timeout, while next_frame
\* still holds the handle of the frame that ran
C21_Witness ==
  /\ event.op = "frame"
  /\ event.ticked
  /\ event.has_alive
  /\ event.reduce_fps
  /\ window.timeouts # {}
  /\ state.next_frame # None
  /\ gen >= 2

\* C22: under any interleaving of the clicks and of the firings of timeouts
\* and animation frames, at most one callback is pending, and is_running()
\* is true exactly when one is.
C22_OnePendingIffRunning ==
  /\ Cardinality(window.frames) + Cardinality(window.timeouts) <= 1
  /\ is_running(state) <=> (Pending # {})

\* both handles are set, the frame's is stale and the timeout is pending,
\* after a click on Toggle FPS
C22_Witness ==
  /\ event.op = "fps"
  /\ state.next_frame # None
  /\ state.next_timeout # None
  /\ window.frames = {}
  /\ Cardinality(window.timeouts) = 1
  /\ gen >= 2

\* C23 as stated: toggle_by_coords is called only when is_running() is false,
\* a canvas click leaves the grid alone while the animation runs, and while
\* it runs the current generation changes in a tick only.
C23_OnlyUpdateWhileRunning ==
  /\ event.called => ~event.was_running
  /\ (event.op = "edit" /\ event.was_running) => (cells = event.cells /\ ~event.called)
  /\ (event.was_running /\ cells # event.cells) => event.ticked

\* C23, amended: toggle_by_coords is called only when is_running() is false,
\* a canvas click leaves the grid alone while the animation runs, and while
\* it runs the current generation changes in a tick or by the click on a
\* button that replaces the field.
C23_NoEditWhileRunning ==
  /\ event.called => ~event.was_running
  /\ (event.op = "edit" /\ event.was_running) => (cells = event.cells /\ ~event.called)
  /\ (event.was_running /\ cells # event.cells) => (event.ticked \/ event.op = "init")

\* a canvas click while the animation runs on a grid with live cells
C23_Witness ==
  /\ event.op = "edit"
  /\ event.was_running
  /\ is_running(state)
  /\ ~AllDead(cells)
  /\ cells = event.cells

-----------------------------------------------------------------------------
(* Two Fields of the same current generation, updated and edited alike *)

SmallShapes == {wh \in Shapes : wh[1] * wh[2] <= SmallCells}

\* a Field from generate_by_fn, and a second Field with the same width, height
\* and cells whose swap_cells is any vector: what an earlier update() of any
\* generation followed by toggle_by_coords calls leaves
InitTwin ==
  /\ \E wh \in SmallShapes :
       \E random_bool \in SUBSET (0..(wh[1] * wh[2] - 1)) :
         \E f \in {generate_by_fn(wh[1], wh[2], random_bool)} :
           /\ width = f.width
           /\ height = f.height
           /\ cells = f.cells
           /\ swap_cells = f.swap_cells
           /\ call = [op |-> "generate_by_fn", width |-> wh[1], height |-> wh[2],
                      random_bool |-> random_bool]
           /\ \E old \in [DOMAIN f.cells -> {Dead, Alive}] :
                twin = [f EXCEPT !.swap_cells = old]
  /\ gen = 0
  /\ edits = 0
  /\ panicked = FALSE
  /\ text = <<>>
  /\ parsed = NotParsed
  /\ shown = <<>>
  /\ NoRing
  /\ state = [next_frame |-> None, next_timeout |-> None, reduce_fps |-> FALSE,
              time_history_ms |-> [inner |-> with_capacity(0)]]
  /\ window = NewWindow
  /\ event = NoEvent

\* update() on both Fields
TwinUpdate ==
  /\ ~panicked
  /\ gen < MaxGen
  /\ \E r \in {update(self)}, t \in {update(twin)} :
       /\ cells' = r.field.cells
       /\ swap_cells' = r.field.swap_cells
       /\ twin' = t.field
       /\ panicked' = (r.panic \/ t.panic)
       /\ call' = [op |-> "update", row |-> 0, col |-> 0, ret |-> r.ret,
                   cells |-> cells, swap_cells |-> swap_cells, live |-> r.live,
                   twin_ret |-> t.ret, twin_swap_cells |-> twin.swap_cells]
  /\ gen' = gen + 1
  /\ UNCHANGED <<width, height, edits, text, parsed, shown, state, window, event>>
  /\ UNCHANGED ring_vars

\* toggle_by_coords with the same arguments on both Fields
TwinToggle ==
  /\ ~panicked
  /\ edits < MaxEdits
  /\ \E row \in ArgRows, col \in ArgCols :
       \E r \in {toggle_by_coords(self, row, col)}, t \in {toggle_by_coords(twin, row, col)} :
         /\ cells' = r.field.cells
         /\ swap_cells' = r.field.swap_cells
         /\ twin' = t.field
         /\ panicked' = ((r.ret = Panic) \/ (t.ret = Panic))
         /\ call' = [op |-> "toggle", row |-> row, col |-> col, ret |-> r.ret,
                     cells |-> cells, swap_cells |-> swap_cells, live |-> <<>>]
  /\ edits' = edits + 1
  /\ UNCHANGED <<width, height, gen, text, parsed, shown, state, window, event>>
  /\ UNCHANGED ring_vars

NextTwin == TwinUpdate \/ TwinToggle

SpecTwin == InitTwin /\ [][NextTwin]_vars

\* C24: update() is a function of width, height and the current generation
\* alone: two Fields that agree on these and differ in the other buffer hold
\* the same current generation after update(), and update() returned the
\* same value on both
C24_UpdateIgnoresSwapCells ==
  /\ twin.width = width
  /\ twin.height = height
  /\ twin.cells = cells
  /\ (call.op = "update") => (call.twin_ret = call.ret)

\* an update() of two Fields whose other buffers differed, that changed the
\* generation and left a live cell
C24_Witness ==
  /\ call.op = "update"
  /\ call.twin_swap_cells # call.swap_cells
  /\ ~AllDead(call.twin_swap_cells)
  /\ cells # call.cells
  /\ call.ret = TRUE
  /\ twin.cells = cells

-----------------------------------------------------------------------------
(* A Field displayed and parsed back *)

\* Field::new or generate_by_fn on a small shape, or the Field of a text
InitDisplay ==
  \/ \E wh \in SmallShapes :
       \/ Constructed(new(wh[1], wh[2]),
                      [op |-> "new", width |-> wh[1], height |-> wh[2]])
       \/ \E random_bool \in SUBSET (0..(wh[1] * wh[2] - 1)) :
            Constructed(generate_by_fn(wh[1], wh[2], random_bool),
                        [op |-> "generate_by_fn", width |-> wh[1], height |-> wh[2],
                         random_bool |-> random_bool])
  \/ Constructed(make_glider_field, NoCall)

DisplayUpdate ==
  /\ shown = <<>>
  /\ Update

DisplayToggle ==
  /\ shown = <<>>
  /\ Toggle

\* field.to_string(), then Field::from_str on the string
Reparse ==
  /\ ~panicked
  /\ shown = <<>>
  /\ \E s \in {to_string(self)} :
       \E r \in {from_str(s)} :
         /\ shown' = s
         /\ text' = s
         /\ parsed' = r
         /\ panicked' = (r = Panic)
  /\ UNCHANGED <<width, height, cells, swap_cells, call, gen, edits>>
  /\ UNCHANGED ring_vars
  /\ UNCHANGED host_vars

NextDisplay == DisplayUpdate \/ DisplayToggle \/ Reparse

SpecDisplay == InitDisplay /\ [][NextDisplay]_vars

\* C25: from_str of the string a Field displays as succeeds, and its Field
\* has the width, the height and the current generation of the Field
\* displayed, and a swap_cells of as many cells, all Dead
C25_DisplayParsesBack ==
  (shown # <<>>) =>
    /\ parsed.tag = "Ok"
    /\ parsed.val.width = width
    /\ parsed.val.height = height
    /\ parsed.val.cells = cells
    /\ DOMAIN parsed.val.swap_cells = DOMAIN cells
    /\ AllDead(parsed.val.swap_cells)

\* a Field of several rows displayed after an update() and an edit, with
\* live cells in both buffers
C25_Witness ==
  /\ shown # <<>>
  /\ parsed.tag = "Ok"
  /\ gen >= 1
  /\ edits >= 1
  /\ height >= 2
  /\ ~AllDead(cells)
  /\ ~AllDead(swap_cells)
  /\ cells \notin {[i \in DOMAIN cells |-> Alive]}

-----------------------------------------------------------------------------
(* Texts of several lines, some of them with defects *)

\* lines of one and two cells, lines with an unknown character, the empty
\* line and a line with a space before its cell
DefectLines ==
  { <<Hash>>, <<Underscore>>, <<Hash, Hash>>, <<Hash, Underscore>>,
    <<Letter>>, <<Hash, Letter>>, <<Letter, Hash>>, <<>>, <<Space, Hash>> }

DefectTexts ==
  UNION { {JoinLines(ls, 1) : ls \in [1..n -> DefectLines]} : n \in 1..MaxLines }

InitDefects ==
  /\ text \in DefectTexts
  /\ NoField
  /\ call = NoCall
  /\ gen = 0
  /\ edits = 0
  /\ panicked = FALSE
  /\ parsed = NotParsed
  /\ shown = <<>>
  /\ NoRing
  /\ NoHost

SpecDefects == InitDefects /\ [][NextParse]_vars

\* line i holds a character other than '#' and '_', or is not as long as the
\* first line
Offending(t, i) ==
  \/ BadLine(TextLines(t)[i])
  \/ Len(TextLines(t)[i]) # Len(TextLines(t)[1])

FirstOffending(t, i) ==
  /\ Offending(t, i)
  /\ \A j \in 1..(i - 1) : ~Offending(t, j)

\* C26: from_str returns the error of the first offending line from the top:
\* UnknownChar when that line holds a character other than '#' and '_',
\* whatever its length, and WidthMismatch when it holds none and its length
\* is not the first line's, whatever the lines below it hold
C26_FirstOffendingLineDecides ==
  Parsed =>
    \A i \in 1..Len(TextLines(text)) :
      FirstOffending(text, i) =>
        parsed = Err(IF BadLine(TextLines(text)[i]) THEN UnknownChar ELSE WidthMismatch)

\* three lines: cells, then a line of another length with an unknown
\* character, then a line of cells of another length; from_str returned
\* UnknownChar
C26_Witness ==
  /\ Parsed
  /\ Len(TextLines(text)) = 3
  /\ ~BadLine(TextLines(text)[1])
  /\ BadLine(TextLines(text)[2])
  /\ Len(TextLines(text)[2]) # Len(TextLines(text)[1])
  /\ ~BadLine(TextLines(text)[3])
  /\ Len(TextLines(text)[3]) # Len(TextLines(text)[1])
  /\ parsed = Err(UnknownChar)

====
